---- MODULE Spec2Model ----
(***************************************************************************)
(* Model of axon_report.py: the command-line report fetcher.               *)
(*                                                                         *)
(* Python strings are sequences of one-character strings, so that len(),   *)
(* padding, number formatting and date parsing are computed, not assumed.  *)
(* JSON values are tagged records:                                         *)
(*   [t |-> "null"]  [t |-> "str", s |-> chars]  [t |-> "int", n |-> k]     *)
(*   [t |-> "float", e |-> k]   (the float k/8, exactly representable)     *)
(*   [t |-> "dict", d |-> record]   [t |-> "list", l |-> sequence]         *)
(***************************************************************************)
EXTENDS Integers, Sequences, FiniteSets, TLC

\* ---------------------------------------------------------------- bounds
\* Longest array of rows the remote endpoint answers with.
MaxRows == 2

\* ------------------------------------------------------- string helpers
DigitChars == <<"0", "1", "2", "3", "4", "5", "6", "7", "8", "9">>

IsDigit(c) == \E i \in 1..10 : DigitChars[i] = c

DigitVal(c) == (CHOOSE i \in 1..10 : DigitChars[i] = c) - 1

AllDigits(s) == \A i \in 1..Len(s) : IsDigit(s[i])

RECURSIVE NatOf(_)
\* value of a non-empty digit string
NatOf(s) ==
    IF Len(s) = 0 THEN 0
    ELSE NatOf(SubSeq(s, 1, Len(s) - 1)) * 10 + DigitVal(s[Len(s)])

RECURSIVE Digits(_)
\* str(n) for a natural number n
Digits(n) ==
    IF n < 10 THEN <<DigitChars[n + 1]>>
    ELSE Digits(n \div 10) \o <<DigitChars[(n % 10) + 1]>>

RECURSIVE Repeat(_, _)
\* c * n
Repeat(c, n) == IF n <= 0 THEN <<>> ELSE <<c>> \o Repeat(c, n - 1)

\* f"{s:<{w}}": left-justify, pad with spaces, never truncate
LJust(s, w) == s \o Repeat(" ", w - Len(s))

RECURSIVE Join(_, _)
\* sep.join(parts)
Join(sep, parts) ==
    IF Len(parts) = 0 THEN <<>>
    ELSE IF Len(parts) = 1 THEN parts[1]
    ELSE parts[1] \o sep \o Join(sep, Tail(parts))

Max2(a, b) == IF a >= b THEN a ELSE b

\* position of the first occurrence of c in s, 0 when there is none
IndexOf(s, c) ==
    IF \E i \in 1..Len(s) : s[i] = c
    THEN CHOOSE i \in 1..Len(s) : s[i] = c /\ \A j \in 1..(i - 1) : s[j] # c
    ELSE 0

RECURSIVE StripZeros(_)
StripZeros(s) ==
    IF Len(s) > 1 /\ s[Len(s)] = "0" THEN StripZeros(SubSeq(s, 1, Len(s) - 1))
    ELSE s

RECURSIVE Pow10(_)
Pow10(k) == IF k = 0 THEN 1 ELSE 10 * Pow10(k - 1)

\* ------------------------------------------------------ python scalars
JNull == [t |-> "null"]

\* Python None is JSON null
None == JNull
JStr(s) == [t |-> "str", s |-> s]
JInt(n) == [t |-> "int", n |-> n]
JFloat(e) == [t |-> "float", e |-> e]
JDict(d) == [t |-> "dict", d |-> d]
JList(l) == [t |-> "list", l |-> l]

\* repr() of the float e/8
FloatRepr(e) ==
    Digits(e \div 8) \o <<".">> \o
    StripZeros(<<DigitChars[(((e % 8) * 125) \div 100) + 1],
                 DigitChars[((((e % 8) * 125) \div 10) % 10) + 1],
                 DigitChars[(((e % 8) * 125) % 10) + 1]>>)

\* str(v)
PyStr(v) ==
    CASE v.t = "str" -> v.s
      [] v.t = "null" -> <<"N", "o", "n", "e">>
      [] v.t = "int" -> Digits(v.n)
      [] v.t = "float" -> FloatRepr(v.e)
      [] v.t = "dict" -> <<"{", ".", ".", ".", "}">>
      [] v.t = "list" -> <<"[", ".", ".", ".", "]">>

\* bool(v)
Truthy(v) ==
    CASE v.t = "str" -> Len(v.s) > 0
      [] v.t = "null" -> FALSE
      [] v.t = "int" -> v.n # 0
      [] v.t = "float" -> v.e # 0
      [] v.t = "dict" -> DOMAIN v.d # {}
      [] v.t = "list" -> Len(v.l) > 0

\* f"{x:.2f}" for the float e/8: round half to even on the exact value
Format2f(e) ==
    LET q == (e * 25) \div 2
        h == IF (e * 25) % 2 = 0 THEN q
             ELSE IF q % 2 = 0 THEN q ELSE q + 1
    IN  Digits(h \div 100) \o <<".">> \o
        <<DigitChars[((h % 100) \div 10) + 1], DigitChars[(h % 10) + 1]>>

\* float(v): [ok, e] or the exception raised.  A string converts when it is
\* a decimal numeral  digits[.digits].
PyFloat(v) ==
    CASE v.t = "int" -> [ok |-> TRUE, e |-> v.n * 8]
      [] v.t = "float" -> [ok |-> TRUE, e |-> v.e]
      [] v.t = "str" ->
           LET p == IndexOf(v.s, ".")
               ip == IF p = 0 THEN v.s ELSE SubSeq(v.s, 1, p - 1)
               fp == IF p = 0 THEN <<>> ELSE SubSeq(v.s, p + 1, Len(v.s))
           IN  IF Len(ip) + Len(fp) > 0 /\ AllDigits(ip) /\ AllDigits(fp)
               THEN [ok |-> TRUE,
                     e |-> ((NatOf(ip) * Pow10(Len(fp)) + NatOf(fp)) * 8)
                               \div Pow10(Len(fp))]
               ELSE [ok |-> FALSE, exc |-> "ValueError"]
      [] OTHER -> [ok |-> FALSE, exc |-> "TypeError"]

\* ------------------------------------------------------------ constants
BASE_URL == "https://r.applovin.com/report"

\* COLUMN_MAPPING, in insertion order: API column keys and CSV/table headers
ColumnKeys == <<"day", "campaign", "campaign_id_external", "country", "cost">>

ColumnHeaders ==
    << <<"D", "a", "t", "e">>,
       <<"c", "a", "m", "p", "a", "i", "g", "n", "_", "n", "a", "m", "e">>,
       <<"c", "a", "m", "p", "a", "i", "g", "n", "_", "i", "d">>,
       <<"c", "o", "u", "n", "t", "r", "y">>,
       <<"s", "p", "e", "n", "d">> >>

NCols == Len(ColumnKeys)


\* --------------------------------------------------- datetime.strptime
IsLeap(y) == (y % 4 = 0 /\ y % 100 # 0) \/ y % 400 = 0

DaysInMonth(y, m) ==
    IF m = 2 THEN (IF IsLeap(y) THEN 29 ELSE 28)
    ELSE IF m \in {4, 6, 9, 11} THEN 30 ELSE 31

\* the directive patterns of %m and %d: value of the field, or 0 when the
\* text does not match  (1[0-2]|0[1-9]|[1-9]  and
\* 3[0-1]|[1-2]\d|0[1-9]|[1-9]| [1-9])
MonthField(s) ==
    IF Len(s) \in {1, 2} /\ AllDigits(s) /\ NatOf(s) \in 1..12 THEN NatOf(s)
    ELSE 0

DayField(s) ==
    IF Len(s) \in {1, 2} /\ AllDigits(s) /\ NatOf(s) \in 1..31 THEN NatOf(s)
    ELSE IF Len(s) = 2 /\ s[1] = " " /\ IsDigit(s[2]) /\ s[2] # "0"
         THEN DigitVal(s[2])
    ELSE 0

\* datetime.strptime(s, "%Y-%m-%d") returns (TRUE) or raises ValueError (FALSE)
StrptimeOK(s) ==
    /\ Len(s) >= 8
    /\ AllDigits(SubSeq(s, 1, 4))
    /\ s[5] = "-"
    /\ LET rest == SubSeq(s, 6, Len(s))
           p == IndexOf(rest, "-")
       IN  /\ p > 1
           /\ LET y == NatOf(SubSeq(s, 1, 4))
                  m == MonthField(SubSeq(rest, 1, p - 1))
                  d == DayField(SubSeq(rest, p + 1, Len(rest)))
              IN  /\ y >= 1
                  /\ m # 0
                  /\ d # 0
                  /\ d <= DaysInMonth(y, m)

Now == <<"n", "o", "w">>

\* ------------------------------------------------------- row accessors
Exc(type, msg, arg) == [t |-> "exc", type |-> type, msg |-> msg, arg |-> arg]

EmptyStr == JStr(<<>>)

\* row.get(key, default) on a dict
Get(row, key, default) ==
    IF key \in DOMAIN row.d THEN row.d[key] ELSE default

\* what `for row in data` iterates over: [ok, items] or TypeError.  The keys
\* of a dict are strings; only their type matters to row.get.
Iterate(data) ==
    CASE data.t = "list" -> [ok |-> TRUE, items |-> data.l]
      [] data.t = "str" ->
           [ok |-> TRUE, items |-> [i \in 1..Len(data.s) |-> JStr(<<data.s[i]>>)]]
      [] data.t = "dict" ->
           [ok |-> TRUE,
            items |-> [i \in 1..Cardinality(DOMAIN data.d) |-> JStr(<<"k">>)]]
      [] OTHER -> [ok |-> FALSE, exc |-> Exc("TypeError", "not iterable", None)]

\* len(data)
PyLen(data) ==
    CASE data.t = "list" -> Len(data.l)
      [] data.t = "str" -> Len(data.s)
      [] data.t = "dict" -> Cardinality(DOMAIN data.d)
      [] OTHER -> 0

\* ---------------------------------------------------------- print_table
\* variant: the empty test removed
NotData_Never(data) == FALSE

\* `not data`, the first test of both renderers
NotData(data) == ~Truthy(data)

ZeroCell == <<"0", ".", "0", "0">>

\* variant: the cost printed through str() instead of the .2f format
TableCostCell_Unrounded(row) ==
    IF Truthy(Get(row, "cost", JNull))
    THEN LET f == PyFloat(Get(row, "cost", JInt(0)))
         IN  IF f.ok THEN [ok |-> TRUE, cell |-> JStr(FloatRepr(f.e))]
             ELSE [ok |-> FALSE, exc |-> Exc(f.exc, "float()", None)]
    ELSE [ok |-> TRUE, cell |-> JStr(<<"0">>)]

\* the fifth cell of a table row: [ok, cell] or the exception float() raises
TableCostCell(row) ==
    IF Truthy(Get(row, "cost", JNull))
    THEN LET f == PyFloat(Get(row, "cost", JInt(0)))
         IN  IF f.ok THEN [ok |-> TRUE, cell |-> JStr(Format2f(f.e))]
             ELSE [ok |-> FALSE, exc |-> Exc(f.exc, "float()", None)]
    ELSE [ok |-> TRUE, cell |-> JStr(ZeroCell)]

\* one iteration of the "Build rows" loop
TableRow(row) ==
    IF row.t # "dict"
    THEN [ok |-> FALSE, exc |-> Exc("AttributeError", "no attribute get", None)]
    ELSE LET c == TableCostCell(row)
         IN  IF c.ok
             THEN [ok |-> TRUE,
                   cells |-> <<Get(row, "day", EmptyStr),
                               Get(row, "campaign", EmptyStr),
                               Get(row, "campaign_id_external", EmptyStr),
                               Get(row, "country", EmptyStr),
                               c.cell>>]
             ELSE c

\* the whole "Build rows" loop: the rows, or the exception of the first row
\* that raises
BuildRows(data) ==
    LET it == Iterate(data)
    IN  IF ~it.ok THEN it
        ELSE LET bad == {i \in 1..Len(it.items) : ~TableRow(it.items[i]).ok}
             IN  IF bad = {}
                 THEN [ok |-> TRUE,
                       rows |-> [i \in 1..Len(it.items) |->
                                    TableRow(it.items[i]).cells]]
                 ELSE TableRow(it.items[CHOOSE i \in bad :
                                           \A j \in bad : i <= j])

HeaderWidths == [i \in 1..NCols |-> Len(ColumnHeaders[i])]

\* variant: the width replaced by the cell length, max() forgotten
WidenBy_NoMax(w, row) == [i \in 1..NCols |-> Len(PyStr(row[i]))]

\* one iteration of the outer "Calculate column widths" loop
WidenBy(w, row) == [i \in 1..NCols |-> Max2(w[i], Len(PyStr(row[i])))]

\* sep()
SepLine(w) ==
    <<"+">> \o Join(<<"+">>, [i \in 1..NCols |-> Repeat("-", w[i] + 2)]) \o <<"+">>

HeaderLine(w) ==
    <<"|">> \o
    Join(<<"|">>, [i \in 1..NCols |->
                      <<" ">> \o LJust(ColumnHeaders[i], w[i]) \o <<" ">>]) \o
    <<"|">>

RowLine(w, row) ==
    <<"|">> \o
    Join(<<"|">>, [i \in 1..NCols |->
                      <<" ">> \o LJust(PyStr(row[i]), w[i]) \o <<" ">>]) \o
    <<"|">>

NoDataLine == <<"N", "o", " ", "d", "a", "t", "a", " ", "f", "o", "u", "n", "d", ".">>

CountLine(n) == <<"\n">> \o Digits(n) \o <<" ", "r", "o", "w", "s">>

\* -------------------------------------------------------- export_to_csv
\* what csv.writer writes for one field: None as the empty field, a string
\* as itself, anything else through str()
CsvField(v) == IF v.t = "null" THEN <<>> ELSE PyStr(v)

\* variant: the CSV cost defaulted the way the table cost is
CsvCostField_AsTable(row) ==
    IF Truthy(Get(row, "cost", JNull))
    THEN CsvField(Get(row, "cost", EmptyStr))
    ELSE ZeroCell

\* the fifth field of a CSV row
CsvCostField(row) == CsvField(Get(row, "cost", EmptyStr))

CsvRow(row) ==
    <<CsvField(Get(row, "day", EmptyStr)),
      CsvField(Get(row, "campaign", EmptyStr)),
      CsvField(Get(row, "campaign_id_external", EmptyStr)),
      CsvField(Get(row, "country", EmptyStr)),
      CsvCostField(row)>>

\* the body of the `with open(...)` block: the records written before the
\* file is closed, and the exception that ended the loop (None when none)
CsvWrite(data) ==
    LET it == Iterate(data)
    IN  IF ~it.ok THEN [records |-> <<ColumnHeaders>>, exc |-> it.exc]
        ELSE LET bad == {i \in 1..Len(it.items) : it.items[i].t # "dict"}
                 n == IF bad = {} THEN Len(it.items)
                      ELSE (CHOOSE i \in bad : \A j \in bad : i <= j) - 1
             IN  [records |-> <<ColumnHeaders>> \o
                              [i \in 1..n |-> CsvRow(it.items[i])],
                  exc |-> IF bad = {} THEN None
                          ELSE Exc("AttributeError", "no attribute get", None)]

\* --------------------------------------------------------- fetch_report
\* the query parameters of the URL and the request settings
BuildRequest(api_key, start_date, end_date) ==
    [url |-> BASE_URL,
     api_key |-> api_key, start |-> start_date, end |-> end_date,
     columns |-> Join(<<",">>, [i \in 1..NCols |-> <<ColumnKeys[i]>>]),
     format |-> "json", report_type |-> "advertiser",
     user_agent |-> "AxonReportFetcher/1.0", timeout |-> 60]

\* variant: the `results` test placed before the `error` test
ClassifyResponse_ResultsFirst(data) ==
    IF data.t = "dict" /\ "results" \in DOMAIN data.d
    THEN [ok |-> TRUE, val |-> data.d.results]
    ELSE IF data.t = "dict" /\ "error" \in DOMAIN data.d
    THEN [ok |-> FALSE, exc |-> Exc("ValueError", "API Error", data.d.error)]
    ELSE IF data.t = "list"
    THEN [ok |-> TRUE, val |-> data]
    ELSE [ok |-> FALSE,
          exc |-> Exc("ValueError", "Unexpected response format",
                      JStr(<<data.t>>))]

\* variant: the `results` branch returns the envelope, not its value
ClassifyResponse_NoUnwrap(data) ==
    IF data.t = "dict" /\ "error" \in DOMAIN data.d
    THEN [ok |-> FALSE, exc |-> Exc("ValueError", "API Error", data.d.error)]
    ELSE IF data.t = "dict" /\ "results" \in DOMAIN data.d
    THEN [ok |-> TRUE, val |-> data]
    ELSE IF data.t = "list"
    THEN [ok |-> TRUE, val |-> data]
    ELSE [ok |-> FALSE,
          exc |-> Exc("ValueError", "Unexpected response format",
                      JStr(<<data.t>>))]

\* the four tests on the decoded body, in the order of the code
ClassifyResponse(data) ==
    IF data.t = "dict" /\ "error" \in DOMAIN data.d
    THEN [ok |-> FALSE, exc |-> Exc("ValueError", "API Error", data.d.error)]
    ELSE IF data.t = "dict" /\ "results" \in DOMAIN data.d
    THEN [ok |-> TRUE, val |-> data.d.results]
    ELSE IF data.t = "list"
    THEN [ok |-> TRUE, val |-> data]
    ELSE [ok |-> FALSE,
          exc |-> Exc("ValueError", "Unexpected response format", JStr(<<data.t>>))]

\* the try block on what urlopen / read / json.loads produced
fetch_report(resp) ==
    CASE resp.k = "json" -> ClassifyResponse(resp.data)
      [] resp.k = "HTTPError" ->
           [ok |-> FALSE, exc |-> Exc("RuntimeError", "HTTP Error", resp.data)]
      [] resp.k = "URLError" ->
           [ok |-> FALSE, exc |-> Exc("RuntimeError", "URL Error", resp.data)]
      [] resp.k = "JSONDecodeError" ->
           [ok |-> FALSE,
            exc |-> Exc("RuntimeError", "Failed to parse JSON response", resp.data)]
      [] OTHER ->
           [ok |-> FALSE, exc |-> Exc(resp.k, "", resp.data)]

\* --------------------------------------------------------------- inputs
ApiKey == JStr(<<"k">>)

Date_2025_12_24 == <<"2", "0", "2", "5", "-", "1", "2", "-", "2", "4">>
Date_2024_2_29 == <<"2", "0", "2", "4", "-", "2", "-", "2", "9">>
Date_2025_13_40 == <<"2", "0", "2", "5", "-", "1", "3", "-", "4", "0">>
Date_2025_02_30 == <<"2", "0", "2", "5", "-", "0", "2", "-", "3", "0">>

\* --start / --end as typed; None when the option is not on the command line
StartArgs == {None, JStr(Now), JStr(Date_2024_2_29), JStr(Date_2025_13_40)}

EndArgs == {None, JStr(Date_2025_12_24), JStr(Date_2025_02_30)}

OutPath == JStr(<<"o", "u", "t", ".", "c", "s", "v">>)

\* -o as typed: not given, given empty, given a path
OutputArgs == {None, EmptyStr, OutPath}

RowFull ==
    JDict([day |-> JStr(Date_2025_12_24),
           campaign |-> JStr(<<"S", "u", "m", "m", "e", "r", "_", "s", "a", "l", "e", "_", "0", "1">>),
           campaign_id_external |-> JInt(12345),
           country |-> JStr(<<"U", "S">>),
           cost |-> JFloat(100)])

RowZero == JDict([day |-> JStr(Date_2025_12_24), cost |-> JInt(0)])

RowZeroFloat == JDict([country |-> JStr(<<"D", "E">>), cost |-> JFloat(0)])

RowNoCost == JDict([campaign |-> JStr(<<"A">>)])

RowNull == JDict([day |-> JNull, cost |-> JNull])

RowEmptyCost == JDict([cost |-> EmptyStr])

RowStrCost == JDict([cost |-> JStr(<<"1", "0", "0", ".", "1", "2", "5">>)])

RowBadCost == JDict([cost |-> JStr(<<"n", "/", "a">>)])

NotARow == JInt(7)

Items ==
    {RowFull, RowZero, RowZeroFloat, RowNoCost, RowNull, RowEmptyCost,
     RowStrCost, RowBadCost, NotARow}

RowSeqs == UNION {[1..n -> Items] : n \in 0..MaxRows}

Quota == JStr(<<"q", "u", "o", "t", "a", " ", "e", "x", "c", "e", "e", "d", "e", "d">>)

\* decoded response bodies
Bodies ==
    {JList(r) : r \in RowSeqs}
    \cup {JDict([results |-> JList(r)]) : r \in RowSeqs}
    \cup {JDict([error |-> Quota, results |-> JList(r)]) : r \in RowSeqs}
    \cup {JDict([error |-> Quota]), JDict([error |-> JNull]),
          JDict([results |-> JNull]), JDict([results |-> JInt(5)]),
          JDict([status |-> JStr(<<"o", "k">>)]),
          JInt(3), JNull, JStr(<<"o", "o", "p", "s">>)}

\* what the single GET can produce
Responses ==
    {[k |-> "json", data |-> b] : b \in Bodies}
    \cup {[k |-> "HTTPError", data |-> JInt(403)],
          [k |-> "URLError", data |-> JStr(<<"d", "n", "s">>)],
          [k |-> "JSONDecodeError", data |-> JNull],
          [k |-> "TimeoutError", data |-> JNull]}

\* ---------------------------------------------------------------- state
VARIABLES
    pc,          \* position in main / print_table
    argv,        \* the command line
    args,        \* argparse namespace, None before parse_args returns
    requests,    \* GETs issued
    response,    \* what the GET produced, None before it
    data,        \* what fetch_report returned
    exc,         \* exception in flight
    rows,        \* print_table: rows
    widths,      \* print_table: widths
    idx,         \* print_table: loop position
    stdout,      \* print() calls, in order
    stderr,      \* print(file=sys.stderr) calls, in order
    file,        \* the file at the output path, None when never opened
    exitStatus,  \* process exit status, -1 while running
    trace        \* calls of fetch_report and the renderers, in order

vars ==
    <<pc, argv, args, requests, response, data, exc, rows, widths, idx,
      stdout, stderr, file, exitStatus, trace>>

Msg(text, arg) == [text |-> text, arg |-> arg]

Init ==
    /\ pc = "parse_args"
    /\ argv \in [api_key : {None, ApiKey}, help : BOOLEAN,
                 start : StartArgs, end : EndArgs, output : OutputArgs]
    /\ args = None
    /\ requests = <<>>
    /\ response = None
    /\ data = None
    /\ exc = None
    /\ rows = <<>>
    /\ widths = <<>>
    /\ idx = 0
    /\ stdout = <<>>
    /\ stderr = <<>>
    /\ file = None
    /\ exitStatus = -1
    /\ trace = <<>>

\* ----------------------------------------------------------------- main
\* parser.parse_args(): -h prints the help and exits 0; a missing required
\* --api-key prints the usage and exits 2; otherwise defaults are filled in
ParseArgs ==
    /\ pc = "parse_args"
    /\ IF argv.help
       THEN /\ stdout' = Append(stdout, <<"u", "s", "a", "g", "e">>)
            /\ exitStatus' = 0
            /\ pc' = "done"
            /\ UNCHANGED <<args, stderr>>
       ELSE IF argv.api_key = None
       THEN /\ stderr' = Append(stderr,
                 Msg("error: the following arguments are required",
                     JStr(<<"--api-key">>)))
            /\ exitStatus' = 2
            /\ pc' = "done"
            /\ UNCHANGED <<args, stdout>>
       ELSE /\ args' = [t |-> "Namespace",
                        api_key |-> argv.api_key,
                        start |-> IF argv.start = None
                                  THEN JStr(Date_2025_12_24) ELSE argv.start,
                        end |-> IF argv.end = None THEN JStr(Now) ELSE argv.end,
                        output |-> argv.output]
            /\ pc' = "validate_start"
            /\ UNCHANGED <<stdout, stderr, exitStatus>>
    /\ UNCHANGED <<argv, requests, response, data, exc, rows, widths, idx,
                   file, trace>>

ValidateStart ==
    /\ pc = "validate_start"
    /\ IF args.start.s # Now /\ ~StrptimeOK(args.start.s)
       THEN /\ stderr' = Append(stderr,
                 Msg("Error: Invalid start date format", args.start))
            /\ exitStatus' = 1
            /\ pc' = "done"
       ELSE /\ pc' = "validate_end"
            /\ UNCHANGED <<stderr, exitStatus>>
    /\ UNCHANGED <<argv, args, requests, response, data, exc, rows, widths,
                   idx, stdout, file, trace>>

\* variant: the end boundary not validated
ValidateEnd_Unchecked ==
    /\ pc = "validate_end"
    /\ pc' = "fetch"
    /\ UNCHANGED <<argv, args, requests, response, data, exc, rows, widths,
                   idx, stdout, stderr, file, exitStatus, trace>>

ValidateEnd ==
    /\ pc = "validate_end"
    /\ IF args.end.s # Now /\ ~StrptimeOK(args.end.s)
       THEN /\ stderr' = Append(stderr,
                 Msg("Error: Invalid end date format", args.end))
            /\ exitStatus' = 1
            /\ pc' = "done"
       ELSE /\ pc' = "fetch"
            /\ UNCHANGED <<stderr, exitStatus>>
    /\ UNCHANGED <<argv, args, requests, response, data, exc, rows, widths,
                   idx, stdout, file, trace>>

\* line 208: if args.output
OutputGiven(a) == Truthy(a.output)

\* variant: a failed fetch tried once more
FetchReport_Retry ==
    /\ pc = "fetch"
    /\ \E resp \in Responses :
         LET r == fetch_report(resp)
         IN  /\ requests' = Append(requests,
                                   BuildRequest(args.api_key, args.start, args.end))
             /\ response' = resp
             /\ IF r.ok
                THEN /\ data' = r.val
                     /\ trace' = <<"fetch_report", "fetch_report:return">>
                     /\ pc' = IF OutputGiven(args) THEN "export_to_csv"
                              ELSE "print_table"
                     /\ exc' = exc
                ELSE IF requests = <<>>
                THEN /\ pc' = "fetch"
                     /\ UNCHANGED <<data, exc, trace>>
                ELSE /\ exc' = r.exc
                     /\ trace' = <<"fetch_report", "fetch_report:raise">>
                     /\ pc' = "except"
                     /\ data' = data
    /\ UNCHANGED <<argv, args, rows, widths, idx, stdout, stderr, file,
                   exitStatus>>

\* data = fetch_report(...): one GET, then the branch on args.output
FetchReport ==
    /\ pc = "fetch"
    /\ \E resp \in Responses :
         LET r == fetch_report(resp)
         IN  /\ requests' = Append(requests,
                                   BuildRequest(args.api_key, args.start, args.end))
             /\ response' = resp
             /\ IF r.ok
                THEN /\ data' = r.val
                     /\ trace' = trace \o <<"fetch_report", "fetch_report:return">>
                     /\ pc' = IF OutputGiven(args) THEN "export_to_csv"
                              ELSE "print_table"
                     /\ exc' = exc
                ELSE /\ exc' = r.exc
                     /\ trace' = trace \o <<"fetch_report", "fetch_report:raise">>
                     /\ pc' = "except"
                     /\ data' = data
    /\ UNCHANGED <<argv, args, rows, widths, idx, stdout, stderr, file,
                   exitStatus>>

\* ---------------------------------------------------- print_table steps
\* the empty test and the "Build rows" loop
PrintTableBegin ==
    /\ pc = "print_table"
    /\ IF NotData(data)
       THEN /\ stdout' = Append(stdout, NoDataLine)
            /\ trace' = trace \o <<"print_table", "print_table:return">>
            /\ pc' = "return"
            /\ UNCHANGED <<exc, rows, widths, idx>>
       ELSE LET b == BuildRows(data)
            IN  IF b.ok
                THEN /\ rows' = b.rows
                     /\ widths' = HeaderWidths
                     /\ idx' = 1
                     /\ trace' = Append(trace, "print_table")
                     /\ pc' = "pt_widths"
                     /\ UNCHANGED <<exc, stdout>>
                ELSE /\ exc' = b.exc
                     /\ trace' = trace \o <<"print_table", "print_table:raise">>
                     /\ pc' = "except"
                     /\ UNCHANGED <<rows, widths, idx, stdout>>
    /\ UNCHANGED <<argv, args, requests, response, data, stderr, file,
                   exitStatus>>

\* one row of the "Calculate column widths" loop
PrintTableWiden ==
    /\ pc = "pt_widths"
    /\ idx <= Len(rows)
    /\ widths' = WidenBy(widths, rows[idx])
    /\ idx' = idx + 1
    /\ UNCHANGED <<pc, argv, args, requests, response, data, exc, rows,
                   stdout, stderr, file, exitStatus, trace>>

\* sep(); header; sep()
PrintTableHeader ==
    /\ pc = "pt_widths"
    /\ idx > Len(rows)
    /\ stdout' = stdout \o <<SepLine(widths), HeaderLine(widths), SepLine(widths)>>
    /\ idx' = 1
    /\ pc' = "pt_rows"
    /\ UNCHANGED <<argv, args, requests, response, data, exc, rows, widths,
                   stderr, file, exitStatus, trace>>

\* one row of the "Print rows" loop
PrintTableRow ==
    /\ pc = "pt_rows"
    /\ idx <= Len(rows)
    /\ stdout' = Append(stdout, RowLine(widths, rows[idx]))
    /\ idx' = idx + 1
    /\ UNCHANGED <<pc, argv, args, requests, response, data, exc, rows,
                   widths, stderr, file, exitStatus, trace>>

\* closing sep() and the row count
PrintTableFooter ==
    /\ pc = "pt_rows"
    /\ idx > Len(rows)
    /\ stdout' = stdout \o <<SepLine(widths), CountLine(Len(rows))>>
    /\ trace' = Append(trace, "print_table:return")
    /\ pc' = "return"
    /\ UNCHANGED <<argv, args, requests, response, data, exc, rows, widths,
                   idx, stderr, file, exitStatus>>

\* -------------------------------------------------------- export_to_csv
\* the whole function; open() succeeds or raises OSError
ExportToCsv ==
    /\ pc = "export_to_csv"
    /\ IF NotData(data)
       THEN /\ stderr' = Append(stderr, Msg("Warning: No data to export.", None))
            /\ trace' = trace \o <<"export_to_csv", "export_to_csv:return">>
            /\ pc' = "return"
            /\ UNCHANGED <<exc, file>>
       ELSE \E opened \in BOOLEAN :
              IF ~opened
              THEN /\ exc' = Exc("OSError", "open", args.output)
                   /\ trace' = trace \o <<"export_to_csv", "export_to_csv:raise">>
                   /\ pc' = "except"
                   /\ UNCHANGED <<stderr, file>>
              ELSE LET w == CsvWrite(data)
                   IN  /\ file' = [t |-> "file", path |-> args.output,
                                   records |-> w.records]
                       /\ IF w.exc = None
                          THEN /\ stderr' = Append(stderr,
                                     Msg("Exported rows to", JInt(PyLen(data))))
                               /\ trace' = trace \o
                                     <<"export_to_csv", "export_to_csv:return">>
                               /\ pc' = "return"
                               /\ exc' = exc
                          ELSE /\ exc' = w.exc
                               /\ trace' = trace \o
                                     <<"export_to_csv", "export_to_csv:raise">>
                               /\ pc' = "except"
                               /\ stderr' = stderr
    /\ UNCHANGED <<argv, args, requests, response, data, rows, widths, idx,
                   stdout, exitStatus>>

\* --------------------------------------------------------- end of main
\* variant: the exception reported but the exit status left at 0
MainExcept_Swallow ==
    /\ pc = "except"
    /\ stderr' = Append(stderr, Msg("Error", exc))
    /\ exitStatus' = 0
    /\ pc' = "done"
    /\ UNCHANGED <<argv, args, requests, response, data, exc, rows, widths,
                   idx, stdout, file, trace>>

\* except Exception as e: print the diagnostic, sys.exit(1)
MainExcept ==
    /\ pc = "except"
    /\ stderr' = Append(stderr, Msg("Error", exc))
    /\ exitStatus' = 1
    /\ pc' = "done"
    /\ UNCHANGED <<argv, args, requests, response, data, exc, rows, widths,
                   idx, stdout, file, trace>>

\* main returns and the interpreter exits with status 0
MainReturn ==
    /\ pc = "return"
    /\ exitStatus' = 0
    /\ pc' = "done"
    /\ UNCHANGED <<argv, args, requests, response, data, exc, rows, widths,
                   idx, stdout, stderr, file, trace>>

Next ==
    \/ ParseArgs
    \/ ValidateStart
    \/ ValidateEnd
    \/ FetchReport
    \/ PrintTableBegin
    \/ PrintTableWiden
    \/ PrintTableHeader
    \/ PrintTableRow
    \/ PrintTableFooter
    \/ ExportToCsv
    \/ MainExcept
    \/ MainReturn

Spec == Init /\ [][Next]_vars

\* =============================================================== claims
InTrace(ev) == \E i \in 1..Len(trace) : trace[i] = ev

FetchReturned == InTrace("fetch_report:return")

FetchRaised == InTrace("fetch_report:raise")

RendererCalled == InTrace("export_to_csv") \/ InTrace("print_table")

\* the boundary values of the inputs that are not calendar dates
BadDates == {JStr(Date_2025_13_40), JStr(Date_2025_02_30)}

\* the empty-like costs: key absent, null, "", numeric zero
CostAbsentOrBlank(row) ==
    "cost" \notin DOMAIN row.d \/ row.d.cost \in {JNull, EmptyStr}

CostZero(row) ==
    "cost" \in DOMAIN row.d /\ row.d.cost \in {JInt(0), JFloat(0)}

\* C1: the decoded body is classified in the fixed precedence: an object
\* with an `error` key fails with the API error carrying that key's value
\* (also when it has a `results` key); otherwise an object with a `results`
\* key returns that value; otherwise an array is returned; anything else
\* fails with the unexpected-format error.  {"error": "quota exceeded"} is
\* never a successful result.
C1_Precedence ==
    (response # None /\ response.k = "json") =>
        LET b == response.data
            hasError == b.t = "dict" /\ "error" \in DOMAIN b.d
            hasResults == b.t = "dict" /\ "results" \in DOMAIN b.d
        IN  /\ hasError =>
                /\ FetchRaised /\ ~FetchReturned /\ data = None
                /\ exc.type = "ValueError" /\ exc.msg = "API Error"
                /\ exc.arg = b.d.error
            /\ (~hasError /\ hasResults) =>
                /\ FetchReturned /\ ~FetchRaised /\ data = b.d.results
            /\ (~hasError /\ ~hasResults /\ b.t = "list") =>
                /\ FetchReturned /\ ~FetchRaised /\ data = b
            /\ (~hasError /\ ~hasResults /\ b.t # "list") =>
                /\ FetchRaised /\ ~FetchReturned /\ data = None
                /\ exc.type = "ValueError"
                /\ exc.msg = "Unexpected response format"
            /\ b = JDict([error |-> Quota]) =>
                /\ exc.arg = Quota /\ exitStatus # 0 /\ ~RendererCalled

C1_Witness ==
    /\ pc = "done"
    /\ response # None /\ response.k = "json"
    /\ response.data = JDict([error |-> Quota, results |-> JList(<<RowFull>>)])
    /\ FetchRaised /\ exc.arg = Quota /\ exitStatus = 1

\* C2: when args.start or args.end is not `now` and is not a calendar date,
\* the run ends with exit status 1 and a diagnostic naming the offending
\* value, and no GET is issued and fetch_report is never called.
C2_InvalidDateNoFetch ==
    (args # None /\ (args.start \in BadDates \/ args.end \in BadDates)) =>
        /\ pc \in {"validate_start", "validate_end", "done"}
        /\ requests = <<>> /\ response = None /\ trace = <<>>
        /\ pc = "done" =>
            /\ exitStatus = 1
            /\ stderr = IF args.start \in BadDates
                        THEN <<Msg("Error: Invalid start date format", args.start)>>
                        ELSE <<Msg("Error: Invalid end date format", args.end)>>

C2_Witness ==
    /\ pc = "done" /\ args # None
    /\ args.start = JStr(Date_2024_2_29) /\ args.end = JStr(Date_2025_02_30)
    /\ exitStatus = 1 /\ requests = <<>>
    /\ stderr = <<Msg("Error: Invalid end date format", JStr(Date_2025_02_30))>>

\* C3 (as stated): in CSV mode the cost field written for a row whose cost
\* is 0, absent, null or "" is the empty string.
C3_Original ==
    (file # None /\ data.t = "list") =>
        \A i \in 1..(Len(file.records) - 1) :
            (CostAbsentOrBlank(data.l[i]) \/ CostZero(data.l[i])) =>
                file.records[i + 1][5] = <<>>

\* C3 (amended): in CSV mode the cost field written is the empty string when
\* the cost is absent, null or ""; a numeric zero is written as its own text
\* (0 or 0.0); in all four cases the field is not 0.00.
C3_CsvCostRaw ==
    (file # None /\ data.t = "list") =>
        \A i \in 1..(Len(file.records) - 1) :
            /\ CostAbsentOrBlank(data.l[i]) => file.records[i + 1][5] = <<>>
            /\ CostZero(data.l[i]) =>
                   file.records[i + 1][5] \in {<<"0">>, <<"0", ".", "0">>}
            /\ (CostAbsentOrBlank(data.l[i]) \/ CostZero(data.l[i])) =>
                   file.records[i + 1][5] # <<"0", ".", "0", "0">>

C3_Witness ==
    /\ pc = "done" /\ exitStatus = 0 /\ file # None
    /\ data = JList(<<RowZero, RowNoCost>>)
    /\ file.records[2][5] = <<"0">>
    /\ file.records[3][5] = <<>>

EffectiveStart == IF argv.start = None THEN JStr(Date_2025_12_24) ELSE argv.start

EffectiveEnd == IF argv.end = None THEN JStr(Now) ELSE argv.end

ValidationPassed ==
    args # None /\ EffectiveStart \notin BadDates /\ EffectiveEnd \notin BadDates

RendererReturned ==
    InTrace("export_to_csv:return") \/ InTrace("print_table:return")

RendererRaised ==
    InTrace("export_to_csv:raise") \/ InTrace("print_table:raise")

LastIsError ==
    /\ stderr # <<>>
    /\ stderr[Len(stderr)].text \in
           {"Error", "Error: Invalid start date format",
            "Error: Invalid end date format"}

\* C5 (as stated): every invocation of main ends with exit status 0 or 1:
\* 1 with a diagnostic when validation fails or fetch or the renderer
\* raises, 0 exactly when validation passes, the fetch returns and the
\* renderer completes.
C5_Original ==
    (pc = "done") =>
        /\ exitStatus \in {0, 1}
        /\ exitStatus = 0 <=>
               (ValidationPassed /\ FetchReturned /\ RendererReturned)
        /\ exitStatus = 1 => LastIsError

\* C5 (amended): every invocation of main whose command line argparse
\* accepts ends with exit status 0 or 1: 1 with a diagnostic on the error
\* stream when date validation fails or fetch_report or the renderer raises,
\* 0 exactly when validation passes, the fetch returns and the renderer
\* completes; nothing is retried.  A command line with -h ends with status
\* 0, and one without the required --api-key with status 2 and a usage
\* diagnostic on the error stream, both before validation and any fetch.
C5_ExitStatus ==
    (pc = "done") =>
        IF argv.help
        THEN exitStatus = 0 /\ args = None /\ requests = <<>> /\ stderr = <<>>
        ELSE IF argv.api_key = None
        THEN exitStatus = 2 /\ args = None /\ requests = <<>> /\ Len(stderr) = 1
        ELSE /\ exitStatus \in {0, 1}
             /\ exitStatus = 0 <=>
                    (ValidationPassed /\ FetchReturned /\ RendererReturned)
             /\ exitStatus = 1 <=>
                    (~ValidationPassed \/ FetchRaised \/ RendererRaised)
             /\ exitStatus = 1 => LastIsError
             /\ exitStatus = 0 => ~LastIsError
             /\ Len(requests) <= 1
             /\ Len(trace) <= 4

C5_Witness ==
    /\ pc = "done" /\ exitStatus = 1 /\ args # None
    /\ InTrace("print_table:raise")
    /\ stderr = <<Msg("Error", exc)>>
    /\ exc.type = "ValueError"

C7_EmptyRows ==
    (data = JList(<<>>)) =>
        /\ ~InTrace("print_table:raise") /\ ~InTrace("export_to_csv:raise")
        /\ rows = <<>> /\ widths = <<>>
        /\ pc \notin {"pt_widths", "pt_rows", "except"}
        /\ InTrace("print_table") =>
               stdout = <<NoDataLine>> /\ stderr = <<>> /\ file = None
        /\ InTrace("export_to_csv") =>
               /\ stderr = <<Msg("Warning: No data to export.", None)>>
               /\ file = None /\ stdout = <<>>
        /\ pc = "done" => (exitStatus = 0 /\ RendererReturned)

C7_Witness ==
    /\ pc = "done" /\ data = JList(<<>>)
    /\ InTrace("export_to_csv:return")
    /\ stderr = <<Msg("Warning: No data to export.", None)>>
    /\ file = None

\* C8: fetch_report returns the same row sequence R for the body
\* {"results": R} as for the bare array R, namely R itself.
C8_WrappedEqualsBare ==
    (response # None /\ response.k = "json") =>
        LET b == response.data
            bare == b.t = "list"
            wrapped == /\ b.t = "dict" /\ DOMAIN b.d = {"results"}
                       /\ b.d.results.t = "list"
            R == IF bare THEN b.l ELSE b.d.results.l
        IN  (bare \/ wrapped) =>
                /\ R \in RowSeqs
                /\ FetchReturned /\ ~FetchRaised /\ data = JList(R)

C8_Witness ==
    /\ response # None /\ response.k = "json"
    /\ response.data = JDict([results |-> JList(<<RowFull, RowNoCost>>)])
    /\ FetchReturned
    /\ data = JList(<<RowFull, RowNoCost>>)

\* C9: at most one GET per invocation: exactly one once date validation has
\* passed and the run has ended, none when it failed; after the GET fails
\* there is no further GET and no renderer runs; a renderer only ever gets
\* the complete row sequence of the response.
C9_SingleGet ==
    /\ Len(requests) <= 1
    /\ Len(requests) = (IF response = None THEN 0 ELSE 1)
    /\ (pc = "done" /\ args # None) =>
           Len(requests) = (IF ValidationPassed THEN 1 ELSE 0)
    /\ (response # None /\ response.k # "json") => FetchRaised
    /\ FetchRaised =>
           /\ ~RendererCalled /\ ~FetchReturned
           /\ data = None /\ rows = <<>> /\ stdout = <<>> /\ file = None
           /\ pc \in {"except", "done"}
    /\ RendererCalled =>
           /\ FetchReturned /\ response.k = "json"
           /\ data = IF response.data.t = "dict"
                     THEN response.data.d.results ELSE response.data

C9_Witness ==
    /\ pc = "done" /\ Len(requests) = 1
    /\ response # None /\ response.k = "URLError"
    /\ FetchRaised /\ ~RendererCalled /\ exitStatus = 1

\* the lines print_table has printed are table lines
TablePrinted == rows # <<>> /\ stdout # <<>>

\* C10: for a non-empty row sequence each of the five column widths is at
\* least the length of its header and of every cell of its column, and the
\* widths are complete before the first table line is printed: nothing is
\* printed while they are computed, and every table line has the same
\* length.
C10_ColumnWidths ==
    /\ pc = "pt_widths" => stdout = <<>>
    /\ TablePrinted =>
           /\ pc \in {"pt_rows", "return", "done"}
           /\ Len(widths) = NCols
           /\ \A c \in 1..NCols :
                  /\ widths[c] >= Len(ColumnHeaders[c])
                  /\ \A r \in 1..Len(rows) :
                         widths[c] >= Len(PyStr(rows[r][c]))
           /\ \A k \in 1..Len(stdout) :
                  (k <= 3 + Len(rows) + 1) =>
                      Len(stdout[k]) = Len(stdout[1])

C10_Witness ==
    /\ pc = "done" /\ TablePrinted
    /\ data = JList(<<RowNoCost, RowFull>>)
    /\ widths[1] = 10 /\ widths[2] = 14 /\ widths[5] = 5
    /\ Len(stdout) = 7

====
